---------------------------- MODULE Spec2Model ----------------------------
(***************************************************************************)
(* A model of main.py: the conversion of an IPv4 range into CIDR blocks    *)
(* (ip_range_to_cidr), the filtering and aggregation of the rows of the    *)
(* country/ASN table (get_ips_from_ipinfo_csv) and the compare-and-write   *)
(* of the output file (main).                                              *)
(*                                                                         *)
(* Text is modelled as a sequence of one-character strings, so that        *)
(* formatting (str), parsing (ip_address, ip_network), substring           *)
(* containment and lexicographic order are computed rather than assumed.   *)
(* The address space is AddrBits wide instead of 32 bits, and an address   *)
(* is written as one decimal field instead of four.                        *)
(***************************************************************************)
EXTENDS Integers, Sequences, FiniteSets, TLC

VARIABLES
    pc,              \* position of the run
    range_start,     \* the start_ip string given to ip_range_to_cidr
    range_end,       \* the end_ip string given to ip_range_to_cidr
    range_cidrs,     \* the list ip_range_to_cidr returned for the row just
                     \* handled, <<>> when it was not called
    source,          \* the gzipped CSV as the reader delivers it
    row,             \* the row the loop body has just handled, <<>> before
    cidrs,           \* get_ips_from_ipinfo_csv: the accumulating set
    processed_rows,  \* get_ips_from_ipinfo_csv: counter
    matched_rows,    \* get_ips_from_ipinfo_csv: counter
    stderr_lines,    \* number of lines printed to sys.stderr
    china_ips_list,  \* the list get_ips_from_ipinfo_csv returns
    permuted_rows,   \* the rows of source, in another order
    permuted_list,   \* the list returned for the permuted rows
    file,            \* OUTPUT_FILE: absent, or its lines
    file0,           \* OUTPUT_FILE as it was when the run started
    read_outcome,    \* how reading OUTPUT_FILE went: "none" while not tried
    write_outcome,   \* how writing OUTPUT_FILE went: "none" while not tried
    existing_ips,    \* main: the set read from OUTPUT_FILE
    exit_code        \* main: the code given to sys.exit

vars == <<pc, range_start, range_end, range_cidrs, source, row, cidrs,
          processed_rows, matched_rows, stderr_lines, china_ips_list,
          permuted_rows, permuted_list, file, file0, read_outcome,
          write_outcome, existing_ips, exit_code>>

---------------------------------------------------------------------------
(* Bounds *)

AddrBits == 4
MaxRowAddr == 2
MaxRows == 2
MaxPermAddr == 2
MaxMainAddr == 2
MaxMainRows == 1
MaxFileLines == 2

ALL_ONES == 2^AddrBits - 1
Addr == 0..ALL_ONES
None == "None"

---------------------------------------------------------------------------
(* Text *)

Digits == <<"0", "1", "2", "3", "4", "5", "6", "7", "8", "9">>

IsDigit(c) == \E i \in 1..10 : Digits[i] = c

DigitVal(c) == (CHOOSE i \in 1..10 : Digits[i] = c) - 1

RECURSIVE FormatNat(_)
FormatNat(n) ==
    IF n < 10 THEN <<Digits[n + 1]>>
    ELSE Append(FormatNat(n \div 10), Digits[(n % 10) + 1])

RECURSIVE ParseDigits(_)
ParseDigits(s) ==
    IF Len(s) = 0 THEN 0
    ELSE 10 * ParseDigits(SubSeq(s, 1, Len(s) - 1)) + DigitVal(s[Len(s)])

\* A decimal field: digits only, not empty, no leading zero.
IsDecimal(s) ==
    /\ Len(s) > 0
    /\ \A i \in 1..Len(s) : IsDigit(s[i])
    /\ (Len(s) > 1 => s[1] # "0")

IndexOf(s, c) ==
    IF \E i \in 1..Len(s) : s[i] = c
    THEN CHOOSE i \in 1..Len(s) : s[i] = c /\ \A j \in 1..(i - 1) : s[j] # c
    ELSE 0

\* a in b, for two strings
IsSubstring(a, b) ==
    \E i \in 0..(Len(b) - Len(a)) : SubSeq(b, i + 1, i + Len(a)) = a

---------------------------------------------------------------------------
(* ipaddress *)

RECURSIVE bit_length(_)
bit_length(x) == IF x = 0 THEN 0 ELSE 1 + bit_length(x \div 2)

\* a & ~b
RECURSIVE AndNot(_, _)
AndNot(a, b) ==
    IF a = 0 THEN 0
    ELSE (a % 2) * (1 - (b % 2)) + 2 * AndNot(a \div 2, b \div 2)

Min2(a, b) == IF a <= b THEN a ELSE b

count_righthand_zero_bits(number, bits) ==
    IF number = 0 THEN bits
    ELSE Min2(bits, bit_length(AndNot(number - 1, number)))

\* ipaddress.ip_address(s): an address object, or ValueError.
ip_address(s) ==
    IF IndexOf(s, ":") # 0
    THEN [error |-> FALSE, version |-> 6, ip |-> 0]
    ELSE IF IsDecimal(s) /\ ParseDigits(s) <= ALL_ONES
    THEN [error |-> FALSE, version |-> 4, ip |-> ParseDigits(s)]
    ELSE [error |-> TRUE, version |-> 0, ip |-> 0]

\* str(network)
NetworkStr(net) ==
    FormatNat(net.network_address) \o <<"/">> \o FormatNat(net.prefixlen)

\* ipaddress.ip_network(s), for the strings str(network) produces
ip_network(s) ==
    LET k == IndexOf(s, "/")
    IN  [network_address |-> ParseDigits(SubSeq(s, 1, k - 1)),
         prefixlen |-> ParseDigits(SubSeq(s, k + 1, Len(s)))]

\* _BaseNetwork.__lt__: the network address, then the netmask
NetworkLess(a, b) ==
    IF a.network_address # b.network_address
    THEN a.network_address < b.network_address
    ELSE a.prefixlen < b.prefixlen

RECURSIVE summarize_from(_, _)
summarize_from(first_int, last_int) ==
    IF first_int > last_int THEN <<>>
    ELSE LET nbits == Min2(count_righthand_zero_bits(first_int, AddrBits),
                           bit_length(last_int - first_int + 1) - 1)
             net == [network_address |-> first_int,
                     prefixlen |-> AddrBits - nbits]
             next == first_int + 2^nbits
         IN  <<net>> \o (IF next - 1 = ALL_ONES THEN <<>>
                         ELSE summarize_from(next, last_int))

summarize_address_range(first, last) == summarize_from(first.ip, last.ip)

---------------------------------------------------------------------------
(* ip_range_to_cidr *)

RECURSIVE MapNetworkStr(_)
MapNetworkStr(nets) ==
    IF Len(nets) = 0 THEN <<>>
    ELSE <<NetworkStr(Head(nets))>> \o MapNetworkStr(Tail(nets))

\* A plausible slip: the end address taken as exclusive.
ip_range_to_cidr_end_exclusive(start_ip_str, end_ip_str) ==
    LET start_ip == ip_address(start_ip_str)
        end_ip == ip_address(end_ip_str)
    IN  IF start_ip.error \/ end_ip.error THEN [out |-> <<>>, err |-> 1]
        ELSE IF start_ip.version # 4 \/ end_ip.version # 4
        THEN [out |-> <<>>, err |-> 0]
        ELSE IF start_ip.ip > end_ip.ip THEN [out |-> <<>>, err |-> 1]
        ELSE [out |-> MapNetworkStr(summarize_from(start_ip.ip, end_ip.ip - 1)),
              err |-> 0]

\* A plausible slip: one host block per address instead of a summary.
ip_range_to_cidr_hosts(start_ip_str, end_ip_str) ==
    LET start_ip == ip_address(start_ip_str)
        end_ip == ip_address(end_ip_str)
    IN  IF start_ip.error \/ end_ip.error THEN [out |-> <<>>, err |-> 1]
        ELSE IF start_ip.version # 4 \/ end_ip.version # 4
        THEN [out |-> <<>>, err |-> 0]
        ELSE IF start_ip.ip > end_ip.ip THEN [out |-> <<>>, err |-> 1]
        ELSE [out |-> [i \in 1..(end_ip.ip - start_ip.ip + 1) |->
                         NetworkStr([network_address |-> start_ip.ip + i - 1,
                                     prefixlen |-> AddrBits])],
              err |-> 0]

\* out: the returned list; err: the lines printed to sys.stderr.
ip_range_to_cidr(start_ip_str, end_ip_str) ==
    LET start_ip == ip_address(start_ip_str)
        end_ip == ip_address(end_ip_str)
    IN  IF start_ip.error \/ end_ip.error THEN [out |-> <<>>, err |-> 1]
        ELSE IF start_ip.version # 4 \/ end_ip.version # 4
        THEN [out |-> <<>>, err |-> 0]
        ELSE IF start_ip.ip > end_ip.ip THEN [out |-> <<>>, err |-> 1]
        ELSE [out |-> MapNetworkStr(summarize_address_range(start_ip, end_ip)),
              err |-> 0]

---------------------------------------------------------------------------
(* Configuration *)

AS_NUMBERS ==
    << <<"A", "S", "4", "1", "3", "4">>,
       <<"A", "S", "4", "8", "0", "8">>,
       <<"A", "S", "4", "8", "3", "7">>,
       <<"A", "S", "9", "8", "0", "8">>,
       <<"A", "S", "4", "8", "1", "2">> >>

COUNTRY_CODE == <<"C", "N">>

---------------------------------------------------------------------------
(* get_ips_from_ipinfo_csv *)

\* header.index(name), 0-based; -1 stands for its ValueError.
header_index(header, name) ==
    IF \E i \in 1..Len(header) : header[i] = name
    THEN (CHOOSE i \in 1..Len(header) :
             header[i] = name /\ \A j \in 1..(i - 1) : header[j] # name) - 1
    ELSE -1

\* Whether reading the header raises ValueError.
header_error(header) ==
    \/ Len(header) = 0
    \/ Len(header) < 3
    \/ header_index(header, "start_ip") = -1
    \/ header_index(header, "end_ip") = -1
    \/ header_index(header, "country") = -1
    \/ header_index(header, "asn") = -1

Max2(a, b) == IF a >= b THEN a ELSE b

column_indices(header) ==
    LET s == header_index(header, "start_ip")
        e == header_index(header, "end_ip")
        c == header_index(header, "country")
        a == header_index(header, "asn")
    IN  [start_ip_idx |-> s, end_ip_idx |-> e, country_idx |-> c,
         asn_idx |-> a, max_required_index |-> Max2(Max2(s, e), Max2(c, a))]

\* x in lst, for a list
InList(x, lst) == \E i \in 1..Len(lst) : lst[i] = x

SeqToSet(s) == {s[i] : i \in 1..Len(s)}

\* A plausible slip: the ASN looked up by substring containment.
row_matches_substring(r, idx, target_country, target_asns) ==
    /\ r[idx.country_idx + 1] = target_country
    /\ \E i \in 1..Len(target_asns) :
          IsSubstring(target_asns[i], r[idx.asn_idx + 1])

\* country == target_country and asn in target_asns
row_matches(r, idx, target_country, target_asns) ==
    /\ r[idx.country_idx + 1] = target_country
    /\ InList(r[idx.asn_idx + 1], target_asns)

\* The counters and the set before the first row.
acc0 ==
    [cidrs |-> {}, processed_rows |-> 0, matched_rows |-> 0,
     stderr_lines |-> 0, range_cidrs |-> <<>>]

\* A plausible slip: a row whose range is rejected is not counted.
loop_body_count_converted(acc, r, idx, target_country, target_asns) ==
    IF Len(r) <= idx.max_required_index
    THEN [acc EXCEPT !.processed_rows = @ + 1, !.range_cidrs = <<>>]
    ELSE IF row_matches(r, idx, target_country, target_asns)
    THEN LET res == ip_range_to_cidr(r[idx.start_ip_idx + 1],
                                     r[idx.end_ip_idx + 1])
         IN  [cidrs |-> acc.cidrs \cup SeqToSet(res.out),
              processed_rows |-> acc.processed_rows + 1,
              matched_rows |-> acc.matched_rows
                               + (IF res.out = <<>> THEN 0 ELSE 1),
              stderr_lines |-> acc.stderr_lines + res.err,
              range_cidrs |-> res.out]
    ELSE [acc EXCEPT !.processed_rows = @ + 1, !.range_cidrs = <<>>]

\* A plausible slip: the set assigned instead of updated.
loop_body_assign(acc, r, idx, target_country, target_asns) ==
    IF Len(r) <= idx.max_required_index
    THEN [acc EXCEPT !.processed_rows = @ + 1, !.range_cidrs = <<>>]
    ELSE IF row_matches(r, idx, target_country, target_asns)
    THEN LET res == ip_range_to_cidr(r[idx.start_ip_idx + 1],
                                     r[idx.end_ip_idx + 1])
         IN  [cidrs |-> SeqToSet(res.out),
              processed_rows |-> acc.processed_rows + 1,
              matched_rows |-> acc.matched_rows + 1,
              stderr_lines |-> acc.stderr_lines + res.err,
              range_cidrs |-> res.out]
    ELSE [acc EXCEPT !.processed_rows = @ + 1, !.range_cidrs = <<>>]

\* One pass of the loop over the reader's rows.
loop_body(acc, r, idx, target_country, target_asns) ==
    IF Len(r) <= idx.max_required_index
    THEN [acc EXCEPT !.processed_rows = @ + 1, !.range_cidrs = <<>>]
    ELSE IF row_matches(r, idx, target_country, target_asns)
    THEN LET res == ip_range_to_cidr(r[idx.start_ip_idx + 1],
                                     r[idx.end_ip_idx + 1])
         IN  [cidrs |-> acc.cidrs \cup SeqToSet(res.out),
              processed_rows |-> acc.processed_rows + 1,
              matched_rows |-> acc.matched_rows + 1,
              stderr_lines |-> acc.stderr_lines + res.err,
              range_cidrs |-> res.out]
    ELSE [acc EXCEPT !.processed_rows = @ + 1, !.range_cidrs = <<>>]

\* code point order of the characters of a CIDR string
CharCode(c) ==
    IF c = "." THEN 46 ELSE IF c = "/" THEN 47 ELSE 48 + DigitVal(c)

RECURSIVE StrLess(_, _)
StrLess(a, b) ==
    IF Len(b) = 0 THEN FALSE
    ELSE IF Len(a) = 0 THEN TRUE
    ELSE IF Head(a) # Head(b) THEN CharCode(Head(a)) < CharCode(Head(b))
    ELSE StrLess(Tail(a), Tail(b))

\* A plausible slip: sorted(list(cidrs)) without the key.
RECURSIVE sorted_cidrs_as_text(_)
sorted_cidrs_as_text(s) ==
    IF s = {} THEN <<>>
    ELSE LET m == CHOOSE x \in s : \A y \in s : ~StrLess(y, x)
         IN  <<m>> \o sorted_cidrs_as_text(s \ {m})

\* sorted(list(cidrs), key=ipaddress.ip_network)
RECURSIVE sorted_cidrs(_)
sorted_cidrs(s) ==
    IF s = {} THEN <<>>
    ELSE LET m == CHOOSE x \in s :
                     \A y \in s : ~NetworkLess(ip_network(y), ip_network(x))
         IN  <<m>> \o sorted_cidrs(s \ {m})

\* The two halves of a larger block, both in the set.
Siblings(s) ==
    {p \in s \X s :
        LET a == ip_network(p[1])
            b == ip_network(p[2])
        IN  /\ a.prefixlen = b.prefixlen /\ a.prefixlen > 0
            /\ a.network_address % (2 * 2^(AddrBits - a.prefixlen)) = 0
            /\ b.network_address =
                  a.network_address + 2^(AddrBits - a.prefixlen)}

RECURSIVE collapse(_)
collapse(s) ==
    IF Siblings(s) = {} THEN s
    ELSE LET p == CHOOSE q \in Siblings(s) : TRUE
             a == ip_network(p[1])
         IN  collapse((s \ {p[1], p[2]}) \cup
                      {NetworkStr([network_address |-> a.network_address,
                                   prefixlen |-> a.prefixlen - 1])})

\* A plausible slip: adjacent blocks merged before the sort.
finish_collapsed(acc) ==
    IF acc.cidrs = {}
    THEN [list |-> <<>>, stderr_lines |-> acc.stderr_lines + 1]
    ELSE [list |-> sorted_cidrs(collapse(acc.cidrs)),
          stderr_lines |-> acc.stderr_lines]

\* What follows the loop: the warning and [] for an empty set, the sorted
\* list otherwise.
finish(acc) ==
    IF acc.cidrs = {}
    THEN [list |-> <<>>, stderr_lines |-> acc.stderr_lines + 1]
    ELSE [list |-> sorted_cidrs(acc.cidrs), stderr_lines |-> acc.stderr_lines]

RECURSIVE fold_rows(_, _, _, _, _)
fold_rows(acc, rows, idx, target_country, target_asns) ==
    IF Len(rows) = 0 THEN acc
    ELSE fold_rows(loop_body(acc, Head(rows), idx, target_country, target_asns),
                   Tail(rows), idx, target_country, target_asns)

\* The whole call, on a source of which the rows are known: the list
\* returned and the lines printed to sys.stderr. The source is missing, no gzip, has a wrong header, breaks
\* off before its last row, or is read through.
get_ips_from_ipinfo_csv(src, target_country, target_asns) ==
    IF src.status # "ok" \/ header_error(src.header)
    THEN [list |-> <<>>, stderr_lines |-> 1]
    ELSE LET acc == fold_rows(acc0, src.rows, column_indices(src.header),
                              target_country, target_asns)
         IN  IF src.truncated
             THEN [list |-> <<>>, stderr_lines |-> acc.stderr_lines + 1]
             ELSE finish(acc)

---------------------------------------------------------------------------
(* Inputs *)

IPv6Str == <<":", ":">>
BadStr == <<"x">>

\* Every address of the space, an address beyond it, an IPv6 address and
\* a string that is no address.
AddrStrings ==
    {FormatNat(n) : n \in 0..(ALL_ONES + 1)} \cup {IPv6Str, BadStr}

---------------------------------------------------------------------------
(* The conversion alone *)

Idle ==
    /\ source = None /\ row = <<>> /\ cidrs = {}
    /\ processed_rows = 0 /\ matched_rows = 0
    /\ china_ips_list = <<>> /\ permuted_rows = <<>> /\ permuted_list = <<>>
    /\ file = None /\ file0 = None
    /\ read_outcome = "none" /\ write_outcome = "none"
    /\ existing_ips = {} /\ exit_code = None

InitConv ==
    /\ pc = "convert"
    /\ range_start \in AddrStrings
    /\ range_end \in AddrStrings
    /\ range_cidrs = <<>>
    /\ stderr_lines = 0
    /\ Idle

Convert ==
    /\ pc = "convert"
    /\ LET r == ip_range_to_cidr(range_start, range_end)
       IN  /\ range_cidrs' = r.out
           /\ stderr_lines' = stderr_lines + r.err
    /\ pc' = "converted"
    /\ UNCHANGED <<range_start, range_end, source, row, cidrs, processed_rows,
                   matched_rows, china_ips_list, permuted_rows,
                   permuted_list, file, file0, read_outcome, write_outcome,
                   existing_ips, exit_code>>

NextConv == Convert

SpecConv == InitConv /\ [][NextConv]_vars

---------------------------------------------------------------------------
(* Properties of the conversion *)

ValidRange ==
    /\ ~ip_address(range_start).error /\ ip_address(range_start).version = 4
    /\ ~ip_address(range_end).error /\ ip_address(range_end).version = 4
    /\ ip_address(range_start).ip <= ip_address(range_end).ip

StartInt == ip_address(range_start).ip
EndInt == ip_address(range_end).ip

BlockSize(net) == 2^(AddrBits - net.prefixlen)

Span(net) ==
    net.network_address..(net.network_address + BlockSize(net) - 1)

IsCidrBlock(net) ==
    /\ net.prefixlen \in 0..AddrBits
    /\ net.network_address \in Addr
    /\ net.network_address % BlockSize(net) = 0

\* The blocks of the returned list that contain address a.
Holders(a) ==
    {i \in 1..Len(range_cidrs) : a \in Span(ip_network(range_cidrs[i]))}

\* C1: for valid start <= end the returned blocks are CIDR blocks and
\* every address of [start, end] lies in exactly one of them, every
\* address outside lies in none.
C1_ExactCover ==
    (pc = "converted" /\ ValidRange) =>
        /\ \A i \in 1..Len(range_cidrs) : IsCidrBlock(ip_network(range_cidrs[i]))
        /\ \A a \in Addr :
              Cardinality(Holders(a)) =
                  IF StartInt <= a /\ a <= EndInt THEN 1 ELSE 0

C1_Witness ==
    /\ pc = "converted" /\ ValidRange
    /\ StartInt = 1 /\ EndInt = ALL_ONES - 1
    /\ Len(range_cidrs) >= 4

\* The least number of CIDR blocks that partition [s, e]: tab[i] is the
\* least number for [i, e], filled from e down to s over every aligned
\* block that starts at i and ends within e.
RECURSIVE FillMin(_, _, _, _)
FillMin(i, s, e, tab) ==
    IF i < s THEN tab[s]
    ELSE LET ks == {k \in 0..AddrBits : i % (2^k) = 0 /\ i + 2^k - 1 <= e}
             best == CHOOSE v \in {tab[i + 2^k] : k \in ks} :
                        \A k \in ks : v <= tab[i + 2^k]
         IN  FillMin(i - 1, s, e, (i :> (1 + best)) @@ tab)

MinBlocks(s, e) == FillMin(e, s, e, (e + 1) :> 0)

\* C2: for valid start <= end no partition of [start, end] into CIDR
\* blocks has fewer blocks than the returned list; 1..3 gives the host
\* block of 1 and the two-address block at 2; start = end gives one host
\* block.
C2_Minimal ==
    (pc = "converted" /\ ValidRange) =>
        /\ Len(range_cidrs) = MinBlocks(StartInt, EndInt)
        /\ (StartInt = 1 /\ EndInt = 3) =>
              range_cidrs =
                  <<FormatNat(1) \o <<"/">> \o FormatNat(AddrBits),
                    FormatNat(2) \o <<"/">> \o FormatNat(AddrBits - 1)>>
        /\ (StartInt = EndInt) =>
              range_cidrs = <<range_start \o <<"/">> \o FormatNat(AddrBits)>>

C2_Witness ==
    /\ pc = "converted" /\ ValidRange
    /\ StartInt = 1 /\ EndInt = 3
    /\ Len(range_cidrs) = 2

---------------------------------------------------------------------------
(* Rows and sources *)

HeaderPlain == <<"start_ip", "end_ip", "country", "asn">>
HeaderIPinfo ==
    <<"start_ip", "end_ip", "country", "country_name", "asn", "as_name">>
HeaderEmpty == <<>>
HeaderShort == <<"start_ip", "end_ip">>
HeaderNoAsn == <<"start_ip", "end_ip", "country", "as_number">>

GoodHeaders == {HeaderPlain, HeaderIPinfo}
BadHeaders == {HeaderEmpty, HeaderShort, HeaderNoAsn}

\* The row of a table with this header that holds the four fields.
MakeRow(header, s, e, c, a) ==
    [i \in 1..Len(header) |->
        CASE header[i] = "start_ip" -> s
          [] header[i] = "end_ip" -> e
          [] header[i] = "country" -> c
          [] header[i] = "asn" -> a
          [] OTHER -> <<"x">>]

\* The addresses of the rows: a window in the middle of the space, where
\* addresses of one and of two digits meet.
RowBase == 2^(AddrBits - 1)
RowAddrs == RowBase..(RowBase + MaxRowAddr)

RowAddrStrings == {FormatNat(n) : n \in RowAddrs} \cup {IPv6Str, BadStr}

\* A target ASN, one that extends it, one it extends.
AS4837 == <<"A", "S", "4", "8", "3", "7">>
AS48371 == <<"A", "S", "4", "8", "3", "7", "1">>
AS483 == <<"A", "S", "4", "8", "3">>
\* The country and ASN of a row: the target pair, the target country with
\* the two near ASNs, another country with the target ASN.
Origins ==
    {<<COUNTRY_CODE, AS4837>>, <<COUNTRY_CODE, AS48371>>,
     <<COUNTRY_CODE, AS483>>, <<<<"U", "S">>, AS4837>>}

\* The rows a table with this header may hold, one of them cut short.
RowsFor(header) ==
    {MakeRow(header, s, e, o[1], o[2]) :
        s \in RowAddrStrings, e \in RowAddrStrings, o \in Origins}
    \cup
    {SubSeq(MakeRow(header, FormatNat(RowBase), FormatNat(RowBase),
                    COUNTRY_CODE, AS4837),
            1, column_indices(header).max_required_index)}

AggSources ==
    {[status |-> "missing", header |-> HeaderEmpty],
     [status |-> "badgzip", header |-> HeaderEmpty]}
    \cup {[status |-> "ok", header |-> h] : h \in GoodHeaders \cup BadHeaders}

---------------------------------------------------------------------------
(* get_ips_from_ipinfo_csv, row by row *)

InitAgg ==
    /\ pc = "open"
    /\ source \in AggSources
    /\ row = <<>>
    /\ cidrs = acc0.cidrs
    /\ processed_rows = acc0.processed_rows
    /\ matched_rows = acc0.matched_rows
    /\ stderr_lines = acc0.stderr_lines
    /\ range_cidrs = acc0.range_cidrs
    /\ china_ips_list = <<>>
    /\ range_start = None /\ range_end = None
    /\ permuted_rows = <<>> /\ permuted_list = <<>>
    /\ file = None /\ file0 = None
    /\ read_outcome = "none" /\ write_outcome = "none"
    /\ existing_ips = {} /\ exit_code = None

aggUnused ==
    <<range_start, range_end, permuted_rows, permuted_list, file, file0,
      read_outcome, write_outcome, existing_ips, exit_code>>

\* gzip.open and the header: the loop is entered, or an error is printed
\* and [] returned.
OpenSource ==
    /\ pc = "open"
    /\ IF source.status # "ok" \/ header_error(source.header)
       THEN /\ pc' = "returned"
            /\ stderr_lines' = stderr_lines + 1
       ELSE /\ pc' = "rows"
            /\ UNCHANGED stderr_lines
    /\ UNCHANGED <<source, row, cidrs, processed_rows, matched_rows,
                   range_cidrs, china_ips_list>>
    /\ UNCHANGED aggUnused

ProcessRow ==
    /\ pc = "rows"
    /\ processed_rows < MaxRows
    /\ \E r \in RowsFor(source.header) :
          LET acc == loop_body([cidrs |-> cidrs,
                                processed_rows |-> processed_rows,
                                matched_rows |-> matched_rows,
                                stderr_lines |-> stderr_lines,
                                range_cidrs |-> range_cidrs],
                               r, column_indices(source.header),
                               COUNTRY_CODE, AS_NUMBERS)
          IN  /\ row' = r
              /\ cidrs' = acc.cidrs
              /\ processed_rows' = acc.processed_rows
              /\ matched_rows' = acc.matched_rows
              /\ stderr_lines' = acc.stderr_lines
              /\ range_cidrs' = acc.range_cidrs
    /\ UNCHANGED <<pc, source, china_ips_list>>
    /\ UNCHANGED aggUnused

\* The reader raises while the rows are read (a truncated or corrupt
\* stream): the error is printed and [] returned.
ReaderFails ==
    /\ pc = "rows"
    /\ pc' = "returned"
    /\ china_ips_list' = <<>>
    /\ stderr_lines' = stderr_lines + 1
    /\ UNCHANGED <<source, row, cidrs, processed_rows, matched_rows,
                   range_cidrs>>
    /\ UNCHANGED aggUnused

\* The reader is exhausted.
Finish ==
    /\ pc = "rows"
    /\ LET f == finish([cidrs |-> cidrs, stderr_lines |-> stderr_lines])
       IN  /\ china_ips_list' = f.list
           /\ stderr_lines' = f.stderr_lines
    /\ pc' = "returned"
    /\ UNCHANGED <<source, row, cidrs, processed_rows, matched_rows,
                   range_cidrs>>
    /\ UNCHANGED aggUnused

NextAgg == OpenSource \/ ProcessRow \/ ReaderFails \/ Finish

SpecAgg == InitAgg /\ [][NextAgg]_vars

---------------------------------------------------------------------------
(* Properties of the aggregation, row by row *)

\* The place of a column in the header of the source, from 1.
Column(name) == CHOOSE i \in 1..Len(source.header) : source.header[i] = name

HasField(r, name) == Column(name) <= Len(r)

\* The row has the target country and one of the target ASNs, exactly.
ExactTarget(r) ==
    /\ HasField(r, "country") /\ HasField(r, "asn")
    /\ r[Column("country")] = <<"C", "N">>
    /\ \E i \in 1..Len(AS_NUMBERS) : r[Column("asn")] = AS_NUMBERS[i]

\* The ASN of the row is no target, yet contains one or is part of one.
NearTarget(r) ==
    /\ HasField(r, "asn")
    /\ \A i \in 1..Len(AS_NUMBERS) : r[Column("asn")] # AS_NUMBERS[i]
    /\ \E i \in 1..Len(AS_NUMBERS) :
          \/ IsSubstring(AS_NUMBERS[i], r[Column("asn")])
          \/ IsSubstring(r[Column("asn")], AS_NUMBERS[i])

\* Both ends are IPv4 addresses, in order.
Convertible(r) ==
    /\ HasField(r, "start_ip") /\ HasField(r, "end_ip")
    /\ \E m \in Addr :
          /\ r[Column("start_ip")] = FormatNat(m)
          /\ \E n \in Addr : r[Column("end_ip")] = FormatNat(n) /\ m <= n

\* Both ends are IPv4 addresses, start > end.
Inverted(r) ==
    /\ HasField(r, "start_ip") /\ HasField(r, "end_ip")
    /\ \E m \in Addr :
          /\ r[Column("start_ip")] = FormatNat(m)
          /\ \E n \in Addr : r[Column("end_ip")] = FormatNat(n) /\ m > n

\* The loop body has handled one more row.
RowStep ==
    pc = "rows" /\ pc' = "rows" /\ processed_rows' = processed_rows + 1

\* The row just handled gave blocks to the set.
Contributed == range_cidrs' # <<>> /\ SeqToSet(range_cidrs') \subseteq cidrs'

\* C3, as claimed: a row contributes blocks if and only if it has the
\* target country and exactly one of the target ASNs.
C3_Original ==
    [][RowStep => (Contributed <=> ExactTarget(row'))]_vars

\* C3, amended: a row contributes blocks if and only if it has the target
\* country, exactly one of the target ASNs, and its start and end are
\* IPv4 addresses with start <= end; every other row leaves the set as it
\* was, and so does a row whose ASN contains or extends a target ASN.
C3_ExactMatch ==
    [][RowStep =>
          /\ Contributed <=> (ExactTarget(row') /\ Convertible(row'))
          /\ ~(ExactTarget(row') /\ Convertible(row')) => cidrs' = cidrs
          /\ NearTarget(row') =>
                cidrs' = cidrs /\ matched_rows' = matched_rows]_vars

C3_Witness ==
    /\ pc = "rows" /\ processed_rows = 2
    /\ HasField(row, "asn") /\ NearTarget(row)
    /\ row[Column("asn")] = AS48371
    /\ row[Column("country")] = COUNTRY_CODE
    /\ Convertible(row)
    /\ matched_rows = 1 /\ cidrs # {} /\ range_cidrs = <<>>

NetAddr(s) == ip_network(s).network_address
NetPrefix(s) == ip_network(s).prefixlen

\* C5, as claimed: the returned list is strictly ascending by network
\* address.
C5_Original ==
    pc = "returned" =>
        \A i, j \in 1..Len(china_ips_list) :
            i < j => NetAddr(china_ips_list[i]) < NetAddr(china_ips_list[j])

\* C5, amended: the returned list is ascending by network address, and
\* entries of one network address are in strictly ascending prefix
\* length.
C5_Sorted ==
    pc = "returned" =>
        \A i, j \in 1..Len(china_ips_list) :
            i < j =>
                \/ NetAddr(china_ips_list[i]) < NetAddr(china_ips_list[j])
                \/ /\ NetAddr(china_ips_list[i]) = NetAddr(china_ips_list[j])
                   /\ NetPrefix(china_ips_list[i]) < NetPrefix(china_ips_list[j])

C5_Witness ==
    /\ pc = "returned"
    /\ Len(china_ips_list) >= 3
    /\ NetAddr(china_ips_list[1]) = NetAddr(china_ips_list[2])
    /\ NetPrefix(china_ips_list[1]) < NetPrefix(china_ips_list[2])

---------------------------------------------------------------------------
(* get_ips_from_ipinfo_csv on the same rows in two orders *)

PermAddrStrings == {FormatNat(n) : n \in RowBase..(RowBase + MaxPermAddr)}

PermRows ==
    {MakeRow(HeaderPlain, s, e, COUNTRY_CODE, a) :
        s \in PermAddrStrings, e \in PermAddrStrings, a \in {AS4837, AS48371}}
    \cup
    {SubSeq(MakeRow(HeaderPlain, FormatNat(RowBase), FormatNat(RowBase),
                    COUNTRY_CODE, AS4837), 1, 3)}

SeqsUpTo(S, n) == UNION {[1..k -> S] : k \in 0..n}

Perms(n) == {p \in [1..n -> 1..n] : \A i, j \in 1..n : p[i] = p[j] => i = j}

InitPerm ==
    /\ pc = "first"
    /\ source \in {[status |-> "ok", header |-> HeaderPlain, rows |-> rs,
                    truncated |-> FALSE] : rs \in SeqsUpTo(PermRows, MaxRows)}
    /\ row = <<>>
    /\ cidrs = {} /\ processed_rows = 0 /\ matched_rows = 0
    /\ stderr_lines = 0 /\ range_cidrs = <<>>
    /\ china_ips_list = <<>>
    /\ range_start = None /\ range_end = None
    /\ permuted_rows = <<>> /\ permuted_list = <<>>
    /\ file = None /\ file0 = None
    /\ read_outcome = "none" /\ write_outcome = "none"
    /\ existing_ips = {} /\ exit_code = None

permUnused ==
    <<range_start, range_end, range_cidrs, row, cidrs, processed_rows,
      matched_rows, stderr_lines, file, file0, read_outcome, write_outcome,
      existing_ips, exit_code>>

RunOriginal ==
    /\ pc = "first"
    /\ china_ips_list' =
          get_ips_from_ipinfo_csv(source, COUNTRY_CODE, AS_NUMBERS).list
    /\ pc' = "second"
    /\ UNCHANGED <<source, permuted_rows, permuted_list>>
    /\ UNCHANGED permUnused

RunPermuted ==
    /\ pc = "second"
    /\ \E p \in Perms(Len(source.rows)) :
          LET rs == [i \in 1..Len(source.rows) |-> source.rows[p[i]]]
          IN  /\ permuted_rows' = rs
              /\ permuted_list' =
                    get_ips_from_ipinfo_csv([source EXCEPT !.rows = rs],
                                            COUNTRY_CODE, AS_NUMBERS).list
    /\ pc' = "compared"
    /\ UNCHANGED <<source, china_ips_list>>
    /\ UNCHANGED permUnused

NextPerm == RunOriginal \/ RunPermuted

SpecPerm == InitPerm /\ [][NextPerm]_vars

\* C6: the rows in any other order give the same list.
C6_OrderIndependent ==
    pc = "compared" => permuted_list = china_ips_list

C6_Witness ==
    /\ pc = "compared"
    /\ permuted_rows # source.rows
    /\ \A i \in 1..2 :
          ExactTarget(source.rows[i]) /\ Convertible(source.rows[i])
    /\ Len(china_ips_list) >= 2
    /\ permuted_list = china_ips_list

\* The rows of the source that have the target country and exactly a
\* target ASN.
MatchingRows ==
    {i \in 1..Len(source.rows) : ExactTarget(source.rows[i])}

\* C9: the returned list holds, once each, the blocks ip_range_to_cidr
\* gives for the matching rows, and no other block: blocks of different
\* rows are neither merged nor split.
C9_FlatUnion ==
    pc \in {"second", "compared"} =>
        /\ SeqToSet(china_ips_list) =
              UNION {SeqToSet(ip_range_to_cidr(
                                  source.rows[i][Column("start_ip")],
                                  source.rows[i][Column("end_ip")]).out) :
                     i \in MatchingRows}
        /\ Cardinality(SeqToSet(china_ips_list)) = Len(china_ips_list)

\* Two matching rows that are the two halves of a larger block.
C9_Witness ==
    /\ pc = "second"
    /\ Len(source.rows) = 2 /\ MatchingRows = {1, 2}
    /\ Siblings(SeqToSet(china_ips_list)) # {}
    /\ Len(china_ips_list) = 2

---------------------------------------------------------------------------
(* main *)

RECURSIVE lstrip(_)
lstrip(s) == IF Len(s) > 0 /\ Head(s) = " " THEN lstrip(Tail(s)) ELSE s

RECURSIVE rstrip(_)
rstrip(s) ==
    IF Len(s) > 0 /\ s[Len(s)] = " "
    THEN rstrip(SubSeq(s, 1, Len(s) - 1))
    ELSE s

\* line.strip()
strip(s) == rstrip(lstrip(s))

\* {line.strip() for line in f if line.strip()}
stripped_lines(lines) ==
    {strip(lines[i]) : i \in {j \in 1..Len(lines) : strip(lines[j]) # <<>>}}

\* A plausible slip: the empty list not taken as a failure.
aborts_never(ips_list) == FALSE

\* if not china_ips_list
aborts(ips_list) == Len(ips_list) = 0

\* A plausible slip: the list compared with the set, which are never equal.
unchanged_list_with_set(ips_list, existing) == FALSE

\* new_ips_set == existing_ips
unchanged(ips_list, existing) == SeqToSet(ips_list) = existing

\* The ranges of the rows of a run of main: from RowBase on.
MainRanges == {<<RowBase, RowBase + d>> : d \in 0..MaxMainAddr}

\* Matching rows over these ranges, a matching row with start > end, and
\* a row of another ASN.
MainRows ==
    {MakeRow(HeaderPlain, FormatNat(p[1]), FormatNat(p[2]),
             COUNTRY_CODE, AS4837) : p \in MainRanges}
    \cup {MakeRow(HeaderPlain, FormatNat(RowBase + 1), FormatNat(RowBase),
                  COUNTRY_CODE, AS4837),
          MakeRow(HeaderPlain, FormatNat(RowBase), FormatNat(RowBase),
                  COUNTRY_CODE, AS48371)}

MainSources ==
    {[status |-> "ok", header |-> HeaderPlain, rows |-> rs,
      truncated |-> FALSE] : rs \in SeqsUpTo(MainRows, MaxMainRows)}
    \cup
    {[status |-> "missing", header |-> <<>>, rows |-> <<>>,
      truncated |-> FALSE],
     [status |-> "badgzip", header |-> <<>>, rows |-> <<>>,
      truncated |-> FALSE],
     [status |-> "ok", header |-> HeaderEmpty, rows |-> <<>>,
      truncated |-> FALSE],
     [status |-> "ok", header |-> HeaderNoAsn, rows |-> <<>>,
      truncated |-> FALSE],
     [status |-> "ok", header |-> HeaderPlain,
      rows |-> <<MakeRow(HeaderPlain, FormatNat(RowBase), FormatNat(RowBase),
                         COUNTRY_CODE, AS4837)>>,
      truncated |-> TRUE]}

\* The blocks the rows of a run of main can give.
MainBlocks ==
    UNION {SeqToSet(ip_range_to_cidr(FormatNat(p[1]), FormatNat(p[2])).out) :
              p \in MainRanges}

\* The lines OUTPUT_FILE may hold: a block, a block after a space, an
\* empty line.
FileLines ==
    MainBlocks
    \cup {<<" ">> \o NetworkStr([network_address |-> RowBase,
                                  prefixlen |-> AddrBits])}
    \cup {<<>>}

Files ==
    {[exists |-> FALSE, lines |-> <<>>]}
    \cup {[exists |-> TRUE, lines |-> ls] : ls \in SeqsUpTo(FileLines, MaxFileLines)}

Init ==
    /\ pc = "fetch"
    /\ source \in MainSources
    /\ file \in Files
    /\ file0 = file
    /\ china_ips_list = <<>>
    /\ existing_ips = {}
    /\ exit_code = -1
    /\ read_outcome = "none" /\ write_outcome = "none"
    /\ stderr_lines = 0
    /\ row = <<>> /\ cidrs = {} /\ processed_rows = 0 /\ matched_rows = 0
    /\ range_start = None /\ range_end = None /\ range_cidrs = <<>>
    /\ permuted_rows = <<>> /\ permuted_list = <<>>

mainUnused ==
    <<range_start, range_end, range_cidrs, row, cidrs, processed_rows,
      matched_rows, permuted_rows, permuted_list, source, file0>>

\* Step 1: the list is computed; an empty list ends the run with code 1.
FetchIps ==
    /\ pc = "fetch"
    /\ LET r == get_ips_from_ipinfo_csv(source, COUNTRY_CODE, AS_NUMBERS)
       IN  /\ china_ips_list' = r.list
           /\ IF aborts(r.list)
              THEN /\ stderr_lines' = stderr_lines + r.stderr_lines + 1
                   /\ exit_code' = 1
                   /\ pc' = "exited"
              ELSE /\ stderr_lines' = stderr_lines + r.stderr_lines
                   /\ UNCHANGED exit_code
                   /\ pc' = "read"
    /\ UNCHANGED <<file, existing_ips, read_outcome, write_outcome>>
    /\ UNCHANGED mainUnused

\* Step 2, the file is read to its end.
ReadExisting ==
    /\ pc = "read"
    /\ file.exists
    /\ existing_ips' = stripped_lines(file.lines)
    /\ read_outcome' = "read"
    /\ pc' = "compare"
    /\ UNCHANGED <<file, china_ips_list, exit_code, write_outcome,
                   stderr_lines>>
    /\ UNCHANGED mainUnused

\* Step 2, FileNotFoundError.
ReadNotFound ==
    /\ pc = "read"
    /\ ~file.exists
    /\ existing_ips' = {}
    /\ read_outcome' = "not_found"
    /\ pc' = "compare"
    /\ UNCHANGED <<file, china_ips_list, exit_code, write_outcome,
                   stderr_lines>>
    /\ UNCHANGED mainUnused

\* Step 2, any other exception, raised by open or before the last line is
\* read (no permission, bytes that are no UTF-8, an I/O error): the set
\* keeps the lines read until then.
ReadFails ==
    /\ pc = "read"
    /\ file.exists
    /\ \E k \in 0..Max2(0, Len(file.lines) - 1) :
          existing_ips' = stripped_lines(SubSeq(file.lines, 1, k))
    /\ read_outcome' = "failed"
    /\ stderr_lines' = stderr_lines + 1
    /\ pc' = "compare"
    /\ UNCHANGED <<file, china_ips_list, exit_code, write_outcome>>
    /\ UNCHANGED mainUnused

\* Step 3, the sets are equal: nothing is written.
NoChange ==
    /\ pc = "compare"
    /\ unchanged(china_ips_list, existing_ips)
    /\ exit_code' = 0
    /\ pc' = "exited"
    /\ UNCHANGED <<file, china_ips_list, existing_ips, read_outcome,
                   write_outcome, stderr_lines>>
    /\ UNCHANGED mainUnused

\* Step 4, the list is written, one entry per line.
WriteFile ==
    /\ pc = "compare"
    /\ ~unchanged(china_ips_list, existing_ips)
    /\ file' = [exists |-> TRUE, lines |-> china_ips_list]
    /\ write_outcome' = "written"
    /\ exit_code' = 0
    /\ pc' = "exited"
    /\ UNCHANGED <<china_ips_list, existing_ips, read_outcome, stderr_lines>>
    /\ UNCHANGED mainUnused

\* Step 4, open(OUTPUT_FILE, "w") raises: the file is as it was.
WriteOpenFails ==
    /\ pc = "compare"
    /\ ~unchanged(china_ips_list, existing_ips)
    /\ write_outcome' = "open_failed"
    /\ stderr_lines' = stderr_lines + 1
    /\ exit_code' = 1
    /\ pc' = "exited"
    /\ UNCHANGED <<file, china_ips_list, existing_ips, read_outcome>>
    /\ UNCHANGED mainUnused

\* Step 4, open(OUTPUT_FILE, "w") has emptied the file and the write or
\* the flush raises (disk full, I/O error): the file keeps what reached
\* it.
WriteFails ==
    /\ pc = "compare"
    /\ ~unchanged(china_ips_list, existing_ips)
    /\ \E k \in 0..(Len(china_ips_list) - 1) :
          file' = [exists |-> TRUE, lines |-> SubSeq(china_ips_list, 1, k)]
    /\ write_outcome' = "write_failed"
    /\ stderr_lines' = stderr_lines + 1
    /\ exit_code' = 1
    /\ pc' = "exited"
    /\ UNCHANGED <<china_ips_list, existing_ips, read_outcome>>
    /\ UNCHANGED mainUnused

Next ==
    \/ FetchIps
    \/ ReadExisting
    \/ ReadNotFound
    \/ ReadFails
    \/ NoChange
    \/ WriteFile
    \/ WriteOpenFails
    \/ WriteFails

Spec == Init /\ [][Next]_vars

---------------------------------------------------------------------------
(* Properties of main *)

NewList == [exists |-> TRUE, lines |-> china_ips_list]

\* C7: after the comparison, equal sets leave the file unopened and
\* unchanged and end the run with code 0; different sets have the file
\* opened for writing, and a write that succeeds leaves the new list in
\* the file and ends the run with code 0.
C7_CompareThenWrite ==
    (pc = "exited" /\ read_outcome # "none") =>
        IF existing_ips = SeqToSet(china_ips_list)
        THEN write_outcome = "none" /\ file = file0 /\ exit_code = 0
        ELSE /\ write_outcome # "none"
             /\ write_outcome = "written" => (file = NewList /\ exit_code = 0)

C7_Witness ==
    /\ pc = "exited" /\ read_outcome = "read"
    /\ Len(file0.lines) = 2 /\ Len(china_ips_list) = 2
    /\ existing_ips = SeqToSet(china_ips_list)
    /\ write_outcome = "none" /\ file = file0 /\ exit_code = 0

RequiredColumns == {"start_ip", "end_ip", "country", "asn"}

\* No file, no gzip, a header without the columns, or a stream that
\* breaks off.
SourceUnavailable ==
    \/ source.status # "ok"
    \/ ~(RequiredColumns \subseteq SeqToSet(source.header))
    \/ source.truncated

\* No row of the source has the target country, a target ASN and a range
\* that converts.
NoCidrProduced ==
    \A i \in 1..Len(source.rows) :
        ~(ExactTarget(source.rows[i]) /\ Convertible(source.rows[i]))

\* C8: with the source unavailable, or no block produced, main ends with
\* code 1 and the output file is neither read nor written nor changed.
C8_AbortLeavesFile ==
    (pc = "exited" /\ (SourceUnavailable \/ NoCidrProduced)) =>
        /\ exit_code = 1
        /\ read_outcome = "none" /\ write_outcome = "none"
        /\ file = file0

\* Every matching row fails the conversion, and the file holds lines.
C8_Witness ==
    /\ pc = "exited" /\ exit_code = 1
    /\ ~SourceUnavailable
    /\ Len(source.rows) = 1
    /\ ExactTarget(source.rows[1]) /\ Inverted(source.rows[1])
    /\ Len(file0.lines) = 2 /\ file = file0

\* C10: a run that ends with code 0 leaves in the file exactly the blocks
\* it computed, at least one; a file that is written holds the whole
\* list; and no run empties a file that held blocks.
C10_FileMatchesOnSuccess ==
    /\ (pc = "exited" /\ exit_code = 0) =>
          /\ stripped_lines(file.lines) = SeqToSet(china_ips_list)
          /\ china_ips_list # <<>>
    /\ write_outcome = "written" => file = NewList
    /\ stripped_lines(file0.lines) # {} => stripped_lines(file.lines) # {}

===========================================================================
